---------------------------- MODULE Spec2Model ----------------------------
(***************************************************************************)
(* Token Extractor (src/code.ts): extraction of solid colors from a node   *)
(* tree, deduplication by hex, pattern-based token naming, JSON export and *)
(* export to the host's variable store through the panel message handler.  *)
(*                                                                         *)
(* Representation.                                                         *)
(*  - A string is a sequence of one-character strings, so that template    *)
(*    literals are concatenations and split("-") is computed.              *)
(*  - A colour component is an integer c in 0..Full standing for the       *)
(*    number c/Full; a real number computed from components is a pair      *)
(*    [n, d] standing for n/d, and every comparison and rounding of the    *)
(*    code is carried out exactly on these fractions (the code computes    *)
(*    them in IEEE doubles).                                               *)
(***************************************************************************)
EXTENDS Integers, Sequences, FiniteSets, TLC

\* ------------------------------------------------------------------ bounds
Full == 255
MaxBatch == 3
MaxRamp == 12

\* ----------------------------------------------------------------- strings
Hyphen == "-"

RECURSIVE JoinHyphen(_)
\* Array.prototype.join("-") on a sequence of strings
JoinHyphen(parts) ==
  IF Len(parts) = 0 THEN <<>>
  ELSE IF Len(parts) = 1 THEN parts[1]
  ELSE parts[1] \o <<Hyphen>> \o JoinHyphen(Tail(parts))

RECURSIVE SplitHyphen(_)
\* String.prototype.split("-"): always at least one part
SplitHyphen(s) ==
  IF \A i \in 1..Len(s) : s[i] # Hyphen THEN <<s>>
  ELSE LET k == CHOOSE i \in 1..Len(s) :
                   s[i] = Hyphen /\ \A j \in 1..(i-1) : s[j] # Hyphen
       IN <<SubSeq(s, 1, k-1)>> \o SplitHyphen(SubSeq(s, k+1, Len(s)))

IsSpace(ch) == ch = " "

RECURSIVE TrimLeft(_)
TrimLeft(s) == IF Len(s) > 0 /\ IsSpace(s[1]) THEN TrimLeft(Tail(s)) ELSE s

RECURSIVE TrimRight(_)
TrimRight(s) ==
  IF Len(s) > 0 /\ IsSpace(s[Len(s)]) THEN TrimRight(SubSeq(s, 1, Len(s)-1)) ELSE s

\* String.prototype.trim()
Trim(s) == TrimRight(TrimLeft(s))

DecDigits == <<"0","1","2","3","4","5","6","7","8","9">>
HexDigits == <<"0","1","2","3","4","5","6","7","8","9","A","B","C","D","E","F">>

RECURSIVE NumToStr(_)
\* `${n}` for a non-negative integer n
NumToStr(n) ==
  IF n < 10 THEN <<DecDigits[n+1]>>
  ELSE NumToStr(n \div 10) \o <<DecDigits[(n % 10) + 1]>>

\* string literals of the source
S_color == <<"c","o","l","o","r">>
S_custom == <<"c","u","s","t","o","m">>
S_error == <<"e","r","r","o","r">>
S_warning == <<"w","a","r","n","i","n","g">>
S_success == <<"s","u","c","c","e","s","s">>
S_secondary == <<"s","e","c","o","n","d","a","r","y">>
S_primary == <<"p","r","i","m","a","r","y">>
S_tertiary == <<"t","e","r","t","i","a","r","y">>
S_surface == <<"s","u","r","f","a","c","e">>
S_info == <<"i","n","f","o">>
S_neutral == <<"n","e","u","t","r","a","l">>
S_neutral_light == S_neutral \o <<"-","l","i","g","h","t">>
S_neutral_dark == S_neutral \o <<"-","d","a","r","k">>
S_red == <<"r","e","d">>
S_orange == <<"o","r","a","n","g","e">>
S_yellow == <<"y","e","l","l","o","w">>
S_green == <<"g","r","e","e","n">>
S_cyan == <<"c","y","a","n">>
S_blue == <<"b","l","u","e">>
S_purple == <<"p","u","r","p","l","e">>
S_pink == <<"p","i","n","k">>
S_gray == <<"g","r","a","y">>

\* ------------------------------------------------------------ number helpers
Max2(a, b) == IF a >= b THEN a ELSE b
Min2(a, b) == IF a <= b THEN a ELSE b

\* Math.round of the fraction n/d (d > 0): the nearest integer, halves up
RoundFrac(n, d) == (2 * n + d) \div (2 * d)

\* comparisons of fractions with positive denominators
FracLt(x, y) == x.n * y.d < y.n * x.d
FracGe(x, y) == ~FracLt(x, y)
Frac(n, d) == [n |-> n, d |-> d]

\* ------------------------------------------------------------ color model
\* rgbToHex: Math.round(n*255).toString(16).padStart(2,"0"), upper-cased
ToHex2(c) ==
  LET v == RoundFrac(c * 255, Full)
  IN <<HexDigits[(v \div 16) + 1], HexDigits[(v % 16) + 1]>>

rgbToHex(r, g, b) == <<"#">> \o ToHex2(r) \o ToHex2(g) \o ToHex2(b)

\* rgbToHsl: [h (degrees), s, l] as fractions
rgbToHsl(r, g, b) ==
  LET max == Max2(r, Max2(g, b))
      min == Min2(r, Min2(g, b))
      l == Frac(max + min, 2 * Full)
      d == max - min
  IN IF max = min
       THEN [h |-> Frac(0, 1), s |-> Frac(0, 1), l |-> l]
       ELSE [h |-> IF max = r
                     THEN Frac(60 * (g - b) + (IF g < b THEN 360 * d ELSE 0), d)
                     ELSE IF max = g
                       THEN Frac(60 * (b - r) + 120 * d, d)
                       ELSE Frac(60 * (r - g) + 240 * d, d),
             s |-> IF max + min > Full
                     THEN Frac(d, 2 * Full - max - min)
                     ELSE Frac(d, max + min),
             l |-> l]

Roles == {"red", "orange", "yellow", "green", "cyan", "blue", "purple", "pink", "gray"}

Deg(k) == Frac(k, 1)

\* detectColorRole with the pink range closed at 340 (h <= 340)
detectColorRole_PinkClosed(r, g, b) ==
  LET hsl == rgbToHsl(r, g, b)
      h == hsl.h
  IN IF FracLt(hsl.s, Frac(12, 100)) THEN "gray"
     ELSE IF FracGe(h, Deg(0)) /\ FracLt(h, Deg(20)) THEN "red"
     ELSE IF FracGe(h, Deg(20)) /\ FracLt(h, Deg(45)) THEN "orange"
     ELSE IF FracGe(h, Deg(45)) /\ FracLt(h, Deg(70)) THEN "yellow"
     ELSE IF FracGe(h, Deg(70)) /\ FracLt(h, Deg(165)) THEN "green"
     ELSE IF FracGe(h, Deg(165)) /\ FracLt(h, Deg(200)) THEN "cyan"
     ELSE IF FracGe(h, Deg(200)) /\ FracLt(h, Deg(260)) THEN "blue"
     ELSE IF FracGe(h, Deg(260)) /\ FracLt(h, Deg(300)) THEN "purple"
     ELSE IF FracGe(h, Deg(300)) /\ ~FracLt(Deg(340), h) THEN "pink"
     ELSE "red"

detectColorRole(r, g, b) ==
  LET hsl == rgbToHsl(r, g, b)
      h == hsl.h
  IN IF FracLt(hsl.s, Frac(12, 100)) THEN "gray"
     ELSE IF FracGe(h, Deg(0)) /\ FracLt(h, Deg(20)) THEN "red"
     ELSE IF FracGe(h, Deg(20)) /\ FracLt(h, Deg(45)) THEN "orange"
     ELSE IF FracGe(h, Deg(45)) /\ FracLt(h, Deg(70)) THEN "yellow"
     ELSE IF FracGe(h, Deg(70)) /\ FracLt(h, Deg(165)) THEN "green"
     ELSE IF FracGe(h, Deg(165)) /\ FracLt(h, Deg(200)) THEN "cyan"
     ELSE IF FracGe(h, Deg(200)) /\ FracLt(h, Deg(260)) THEN "blue"
     ELSE IF FracGe(h, Deg(260)) /\ FracLt(h, Deg(300)) THEN "purple"
     ELSE IF FracGe(h, Deg(300)) /\ FracLt(h, Deg(340)) THEN "pink"
     ELSE "red"

shades == <<50, 100, 200, 300, 400, 500, 600, 700, 800, 900, 950>>

\* lightnessToShade with an off-by-one scale (a plausible slip: shades.length)
lightnessToShade_Len(l) ==
  LET index == RoundFrac((l.d - l.n) * Len(shades), l.d)
  IN shades[Max2(0, Min2(Len(shades) - 1, index)) + 1]

lightnessToShade(l) ==
  LET index == RoundFrac((l.d - l.n) * (Len(shades) - 1), l.d)
  IN shades[Max2(0, Min2(Len(shades) - 1, index)) + 1]

lightnessToAntLevel(l) ==
  Max2(1, Min2(10, RoundFrac((l.d - l.n) * 9, l.d) + 1))

\* ------------------------------------------------------------ extraction
\* An optional property of a host object is <<>> when absent (undefined, or
\* for fills/strokes not an array: figma.mixed) and <<v>> when it holds v.
None == <<>>
Some(v) == <<v>>

Sources == {"fill", "stroke", "text"}

ExtractedColor(hex, r, g, b, a, source, tokenName) ==
  [hex |-> hex, r |-> r, g |-> g, b |-> b, a |-> a,
   source |-> source, tokenName |-> tokenName]

\* extractPaint that takes an absent visible flag for hidden (!paint.visible)
extractPaint_NeedsVisible(paint, source) ==
  IF paint.type # "SOLID" \/ paint.visible # Some(TRUE) THEN <<>>
  ELSE <<ExtractedColor(rgbToHex(paint.color.r, paint.color.g, paint.color.b),
                        paint.color.r, paint.color.g, paint.color.b,
                        IF paint.opacity = None THEN Frac(1, 1) ELSE paint.opacity[1],
                        source, <<>>)>>

\* Paint: [type, visible (optional), color: [r, g, b], opacity (optional)]
\* extractPaint: <<>> stands for null, <<c>> for the color c
extractPaint(paint, source) ==
  IF paint.type # "SOLID" \/ paint.visible = Some(FALSE) THEN <<>>
  ELSE <<ExtractedColor(rgbToHex(paint.color.r, paint.color.g, paint.color.b),
                        paint.color.r, paint.color.g, paint.color.b,
                        IF paint.opacity = None THEN Frac(1, 1) ELSE paint.opacity[1],
                        source, <<>>)>>

RECURSIVE extractPaints(_, _)
\* for (const p of paints) { const c = extractPaint(p, source); if (c) colors.push(c) }
extractPaints(paints, source) ==
  IF Len(paints) = 0 THEN <<>>
  ELSE extractPaint(Head(paints), source) \o extractPaints(Tail(paints), source)

\* Node: [type, fills, strokes, children], the last three optional
\* ("fills" in node && Array.isArray(node.fills), "children" in node)
RECURSIVE extractColorsFromNode(_)
RECURSIVE extractColorsFromNodes(_)
extractColorsFromNode(node) ==
  (IF node.fills # None THEN extractPaints(node.fills[1], "fill") ELSE <<>>)
  \o (IF node.strokes # None THEN extractPaints(node.strokes[1], "stroke") ELSE <<>>)
  \o (IF node.type = "TEXT" /\ node.fills # None
        THEN extractPaints(node.fills[1], "text") ELSE <<>>)
  \o (IF node.children # None THEN extractColorsFromNodes(node.children[1]) ELSE <<>>)

\* for (const n of nodes) colors.push(...extractColorsFromNode(n))
extractColorsFromNodes(nodes) ==
  IF Len(nodes) = 0 THEN <<>>
  ELSE extractColorsFromNode(Head(nodes)) \o extractColorsFromNodes(Tail(nodes))

RECURSIVE dedupFrom(_, _)
\* the filter callback of deduplicateColors, with its Set `seen`
dedupFrom(colors, seen) ==
  IF Len(colors) = 0 THEN <<>>
  ELSE LET c == Head(colors)
       IN IF c.hex \in seen THEN dedupFrom(Tail(colors), seen)
          ELSE <<c>> \o dedupFrom(Tail(colors), seen \cup {c.hex})

RECURSIVE dedupAdjacent(_)
\* deduplication that only compares a color with the one kept just before it
dedupAdjacent(colors) ==
  IF Len(colors) <= 1 THEN colors
  ELSE LET rest == dedupAdjacent(Tail(colors))
       IN IF Head(colors).hex = Head(rest).hex
            THEN <<Head(colors)>> \o Tail(rest)
            ELSE <<Head(colors)>> \o rest

deduplicateColors_Adjacent(colors) == dedupAdjacent(colors)

deduplicateColors(colors) == dedupFrom(colors, {})

\* ---------------------------------------------------------------- naming
Patterns == {"material", "tailwind", "antd", "wcag", "custom"}

semanticMap(role) ==
  CASE role = "red" -> S_error
    [] role = "orange" -> S_warning
    [] role = "yellow" -> S_warning
    [] role = "green" -> S_success
    [] role = "cyan" -> S_secondary
    [] role = "blue" -> S_primary
    [] role = "purple" -> S_tertiary
    [] role = "pink" -> S_secondary
    [] role = "gray" -> S_surface

semanticMapAnt(role) ==
  CASE role = "red" -> S_error
    [] role = "orange" -> S_warning
    [] role = "yellow" -> S_warning
    [] role = "green" -> S_success
    [] role = "cyan" -> S_info
    [] role = "blue" -> S_primary
    [] role = "purple" -> S_primary
    [] role = "pink" -> S_error
    [] role = "gray" -> S_neutral

semanticMapWcag(role, l) ==
  CASE role = "red" -> S_error
    [] role = "orange" -> S_warning
    [] role = "yellow" -> S_warning
    [] role = "green" -> S_success
    [] role = "cyan" -> S_info
    [] role = "blue" -> S_info
    [] role = "purple" -> S_info
    [] role = "pink" -> S_error
    [] role = "gray" -> IF FracLt(Frac(1, 2), l) THEN S_neutral_light ELSE S_neutral_dark

RoleStr(role) ==
  CASE role = "red" -> S_red
    [] role = "orange" -> S_orange
    [] role = "yellow" -> S_yellow
    [] role = "green" -> S_green
    [] role = "cyan" -> S_cyan
    [] role = "blue" -> S_blue
    [] role = "purple" -> S_purple
    [] role = "pink" -> S_pink
    [] role = "gray" -> S_gray

\* the switch (pattern) of assignTokenNames: the candidate name of one color;
\* a pattern outside the five leaves tokenName = ""
CandidateName(color, pattern, customPrefix) ==
  LET l == rgbToHsl(color.r, color.g, color.b).l
      role == detectColorRole(color.r, color.g, color.b)
      shade == lightnessToShade(l)
      antLevel == lightnessToAntLevel(l)
  IN CASE pattern = "material" ->
            IF shade = 500 THEN S_color \o <<Hyphen>> \o semanticMap(role)
            ELSE S_color \o <<Hyphen>> \o semanticMap(role) \o <<Hyphen>> \o NumToStr(shade)
       [] pattern = "tailwind" -> RoleStr(role) \o <<Hyphen>> \o NumToStr(shade)
       [] pattern = "antd" -> semanticMapAnt(role) \o <<Hyphen>> \o NumToStr(antLevel)
       [] pattern = "wcag" -> S_color \o <<Hyphen>> \o semanticMapWcag(role, l)
       [] pattern = "custom" ->
            LET prefix == IF Trim(customPrefix) = <<>> THEN S_color ELSE Trim(customPrefix)
            IN prefix \o <<Hyphen>> \o RoleStr(role) \o <<Hyphen>> \o NumToStr(shade)
       [] OTHER -> <<>>

\* "Deduplicate token names" with the counter kept at 0 (never incremented)
DedupeName_Stuck(candidate, roleCount) ==
  IF candidate \in DOMAIN roleCount
    THEN [name |-> candidate \o <<Hyphen>> \o NumToStr(roleCount[candidate]),
          roleCount |-> roleCount]
    ELSE [name |-> candidate, roleCount |-> roleCount @@ (candidate :> 0)]

\* "Deduplicate token names": the new name and the updated registry
DedupeName(candidate, roleCount) ==
  IF candidate \in DOMAIN roleCount
    THEN LET n == roleCount[candidate] + 1
         IN [name |-> candidate \o <<Hyphen>> \o NumToStr(n),
             roleCount |-> [roleCount EXCEPT ![candidate] = n]]
    ELSE [name |-> candidate, roleCount |-> roleCount @@ (candidate :> 0)]

RECURSIVE assignFrom(_, _, _, _)
\* colors.map(...) with the registry roleCount threaded through
assignFrom(colors, pattern, customPrefix, roleCount) ==
  IF Len(colors) = 0 THEN <<>>
  ELSE LET color == Head(colors)
           d == DedupeName(CandidateName(color, pattern, customPrefix), roleCount)
       IN <<[color EXCEPT !.tokenName = d.name]>>
          \o assignFrom(Tail(colors), pattern, customPrefix, d.roleCount)

assignTokenNames(colors, pattern, customPrefix) ==
  assignFrom(colors, pattern, customPrefix, <<>>)

\* ------------------------------------------------------------ JSON export
\* the document before JSON.stringify: an object is a function from its
\* keys (strings) to its values
EmptyObject == <<>>

\* obj[key] = value
SetKey(obj, key, value) == (key :> value) @@ obj

\* buildJson's tailwind loop splitting at the first hyphen instead of the last
NestedStep_FirstHyphen(nested, c) ==
  LET parts == SplitHyphen(c.tokenName)
      colorName == parts[1]
      shade == JoinHyphen(SubSeq(parts, 2, Len(parts)))
      group == IF colorName \in DOMAIN nested THEN nested[colorName] ELSE EmptyObject
  IN SetKey(nested, colorName, SetKey(group, shade, c.hex))

\* one iteration of buildJson's tailwind loop
NestedStep(nested, c) ==
  LET parts == SplitHyphen(c.tokenName)
      colorName == JoinHyphen(SubSeq(parts, 1, Len(parts) - 1))
      shade == parts[Len(parts)]
      group == IF colorName \in DOMAIN nested THEN nested[colorName] ELSE EmptyObject
  IN SetKey(nested, colorName, SetKey(group, shade, c.hex))

RECURSIVE NestedFrom(_, _)
NestedFrom(colors, nested) ==
  IF Len(colors) = 0 THEN nested
  ELSE NestedFrom(Tail(colors), NestedStep(nested, Head(colors)))

RECURSIVE FlatFrom(_, _)
FlatFrom(colors, flat) ==
  IF Len(colors) = 0 THEN flat
  ELSE FlatFrom(Tail(colors), SetKey(flat, Head(colors).tokenName, Head(colors).hex))

buildJson(colors, pattern) ==
  IF pattern = "tailwind"
    THEN [colors |-> NestedFrom(colors, EmptyObject)]
    ELSE [colors |-> FlatFrom(colors, EmptyObject)]

\* ------------------------------------------------------------------ inputs
Rgb(r, g, b) == [r |-> r, g |-> g, b |-> b]

\* a color sample as the extractor makes it
Sample(rgb, a, source) ==
  ExtractedColor(rgbToHex(rgb.r, rgb.g, rgb.b), rgb.r, rgb.g, rgb.b, a, source, <<>>)

\* sample colors: three blues of shade 500, a light red (shade 50), a mid
\* gray, a green
Palette ==
  <<Rgb(0, 0, 255), Rgb(0, 0, 254), Rgb(10, 0, 255),
    Rgb(255, 230, 230), Rgb(128, 128, 128), Rgb(0, 200, 80)>>

\* a one-step red ramp, dark to light, starting where shade 500 starts
RedRamp(i) == IF i <= 25 THEN Rgb(229 + i, 0, 0) ELSE Rgb(255, i - 26, i - 26)

\* sequences of length <= n over S without repetition
RECURSIVE DistinctSeqs(_, _)
DistinctSeqs(S, n) ==
  IF n = 0 THEN {<<>>}
  ELSE LET shorter == DistinctSeqs(S, n - 1)
       IN shorter \cup {Append(q, x) : q \in {s \in shorter : Len(s) = n - 1}, x \in S}
  
NoRepeat(q) == \A i, j \in 1..Len(q) : i # j => q[i] # q[j]

\* batches with pairwise distinct hex: up to maxHead palette colors, then the
\* first n colors of the ramp, n in rampLens
Batches(maxHead, rampLens) ==
  {[i \in 1..(Len(q) + n) |->
      IF i <= Len(q) THEN Sample(Palette[q[i]], Frac(1, 1), "fill")
      ELSE Sample(RedRamp(i - Len(q)), Frac(1, 1), "fill")] :
     q \in {s \in DistinctSeqs(1..Len(Palette), maxHead) : NoRepeat(s)},
     n \in rampLens}

NamingBatches == Batches(MaxBatch, {0, MaxRamp})

\* the least number of colors with one candidate name whose last suffix is
\* the smallest shade label: 51
LongRamp == shades[1] + 1

LongBatches == Batches(1, {LongRamp - 1, LongRamp})

Prefixes == {<<>>, <<" ", " ">>, <<" ", "d", "s">>, <<"m", "y", "-", "u", "i", " ">>}

\* ------------------------------------------------------------------- state
VARIABLES
  call,        \* a function call under check: [fn, ...arguments]
  ret,         \* None before the call returns, Some(result) after
  selection,   \* figma.currentPage.selection: a sequence of nodes
  collections, \* the host's variable collections: [id, name, modeId]
  variables,   \* the host's COLOR variables: [id, name, variableCollectionId, value]
  requests,    \* the messages the panel has sent, in order of arrival
  tasks,       \* per request, the state of its onmessage handler
  outbox,      \* figma.ui.postMessage calls: [req, msg], req the request answered
  history,     \* history variable: the set of store operations done, [req, idx, op, id]
  closed       \* figma.closePlugin() has been called

pureVars == <<call, ret>>
hostVars == <<selection, collections, variables, requests, tasks, outbox, history, closed>>
vars == <<call, ret, selection, collections, variables, requests, tasks, outbox, history, closed>>

\* the plugin before any message, with nothing selected and an empty store
HostIdle ==
  /\ selection = <<>>
  /\ collections = <<>>
  /\ variables = <<>>
  /\ requests = <<>>
  /\ tasks = <<>>
  /\ outbox = <<>>
  /\ history = {}
  /\ closed = FALSE

\* ---------------------------------------------- specification: naming
InitNaming ==
  /\ call \in {[fn |-> "assignTokenNames", colors |-> b, pattern |-> p, customPrefix |-> x] :
                 b \in NamingBatches, p \in Patterns, x \in Prefixes}
  /\ ret = None
  /\ HostIdle

ApplyNaming ==
  /\ call.fn = "assignTokenNames" /\ ret = None
  /\ ret' = Some(assignTokenNames(call.colors, call.pattern, call.customPrefix))
  /\ UNCHANGED <<call, hostVars>>

SpecNaming == InitNaming /\ [][ApplyNaming]_vars

\* ------------------------------- specification: naming, long batches
InitNamingLong ==
  /\ call \in {[fn |-> "assignTokenNames", colors |-> b, pattern |-> p, customPrefix |-> x] :
                 b \in LongBatches, p \in Patterns, x \in Prefixes}
  /\ ret = None
  /\ HostIdle

SpecNamingLong == InitNamingLong /\ [][ApplyNaming]_vars

HexDistinct(colors) ==
  \A i, j \in 1..Len(colors) : i # j => colors[i].hex # colors[j].hex

\* C1: after assignTokenNames on colors with pairwise distinct hex, under
\* each of the five patterns and any prefix, every color has a non-empty
\* tokenName and no two colors of the batch have the same tokenName.
C1_UniqueNames ==
  (ret # None /\ HexDistinct(call.colors) /\ call.pattern \in Patterns) =>
     LET named == ret[1]
     IN /\ Len(named) = Len(call.colors)
        /\ \A i \in 1..Len(named) : named[i].tokenName # <<>>
        /\ \A i, j \in 1..Len(named) :
             i # j => named[i].tokenName # named[j].tokenName

\* C2: with a registry empty at the start of the call, the first color whose
\* candidate name is N keeps N, and the k-th (k >= 2) gets N, '-', k-1.
C2_SuffixByOccurrence ==
  ret # None =>
    LET cand == [i \in 1..Len(call.colors) |->
                   CandidateName(call.colors[i], call.pattern, call.customPrefix)]
    IN /\ Len(ret[1]) = Len(call.colors)
       /\ \A i \in 1..Len(ret[1]) :
            LET k == Cardinality({j \in 1..i : cand[j] = cand[i]})
            IN ret[1][i].tokenName =
                 IF k = 1 THEN cand[i] ELSE cand[i] \o <<"-">> \o NumToStr(k - 1)

\* three colors that all have the candidate blue-500 under tailwind are named
\* blue-500, blue-500-1, blue-500-2 in input order
C2_Witness ==
  /\ ret # None
  /\ call.pattern = "tailwind"
  /\ Len(call.colors) = 3
  /\ \A i \in 1..3 : CandidateName(call.colors[i], "tailwind", <<>>)
                       = <<"b","l","u","e","-","5","0","0">>
  /\ ret[1][1].tokenName = <<"b","l","u","e","-","5","0","0">>
  /\ ret[1][2].tokenName = <<"b","l","u","e","-","5","0","0","-","1">>
  /\ ret[1][3].tokenName = <<"b","l","u","e","-","5","0","0","-","2">>

\* ------------------------------------------- specification: deduplication
Alphas == {Frac(1, 1), Frac(1, 2)}

\* samples that share hex values while differing in source and alpha
DedupSamples ==
  {Sample(Palette[i], a, src) : i \in {1, 4, 5}, a \in Alphas, src \in {"fill", "stroke"}}

RECURSIVE SeqsUpTo(_, _)
\* sequences of length <= n over S
SeqsUpTo(S, n) ==
  IF n = 0 THEN {<<>>}
  ELSE LET shorter == SeqsUpTo(S, n - 1)
       IN shorter \cup {Append(q, x) : q \in {s \in shorter : Len(s) = n - 1}, x \in S}

InitDedup ==
  /\ call \in {[fn |-> "deduplicateColors", colors |-> q] : q \in SeqsUpTo(DedupSamples, MaxBatch)}
  /\ ret = None
  /\ HostIdle

ApplyDedup ==
  /\ call.fn = "deduplicateColors" /\ ret = None
  /\ ret' = Some(deduplicateColors(call.colors))
  /\ UNCHANGED <<call, hostVars>>

SpecDedup == InitDedup /\ [][ApplyDedup]_vars

\* the positions of the first occurrence of each hex in colors
FirstPositions(colors) ==
  {j \in 1..Len(colors) : \A k \in 1..(j-1) : colors[k].hex # colors[j].hex}

\* the i-th smallest element of a set of integers
Nth(S, i) == CHOOSE j \in S : Cardinality({k \in S : k <= j}) = i

\* C3: deduplicateColors returns exactly the first occurrence of each distinct
\* hex value, in the order of those first occurrences: no two output elements
\* share a hex, every input hex appears, and each output element is the
\* earliest input element with that hex (its source and alpha included).
C3_FirstOccurrences ==
  (ret # None /\ call.fn = "deduplicateColors") =>
    LET in == call.colors
        out == ret[1]
        first == FirstPositions(in)
    IN /\ Len(out) = Cardinality(first)
       /\ \A i \in 1..Len(out) : out[i] = in[Nth(first, i)]
       /\ \A i, j \in 1..Len(out) : i # j => out[i].hex # out[j].hex
       /\ \A j \in 1..Len(in) : \E i \in 1..Len(out) : out[i].hex = in[j].hex

\* a hex that occurs first, not adjacent again with another source and alpha,
\* and is kept once with the first occurrence's source and alpha
C3_Witness ==
  /\ ret # None /\ call.fn = "deduplicateColors"
  /\ Len(call.colors) = 3 /\ Len(ret[1]) = 2
  /\ call.colors[1].hex = call.colors[3].hex
  /\ call.colors[1].source # call.colors[3].source
  /\ call.colors[1].a # call.colors[3].a
  /\ ret[1][1] = call.colors[1]

\* ------------------------------------------------ specification: extraction
MaxPaints == 2
MaxChildren == 2

\* a visible solid without flags, a hidden solid, a gradient, a solid with
\* visible = true and an opacity
SamplePaints ==
  {[type |-> "SOLID", visible |-> None, color |-> Palette[1], opacity |-> None],
   [type |-> "SOLID", visible |-> Some(FALSE), color |-> Palette[4], opacity |-> None],
   [type |-> "GRADIENT_LINEAR", visible |-> None, color |-> Palette[5], opacity |-> None],
   [type |-> "SOLID", visible |-> Some(TRUE), color |-> Palette[6], opacity |-> Some(Frac(1, 2))]}

Node(type, fills, strokes, children) ==
  [type |-> type, fills |-> fills, strokes |-> strokes, children |-> children]

PaintLists(n) == {None} \cup {Some(q) : q \in SeqsUpTo(SamplePaints, n)}

\* children of the selected node: leaves, and a frame holding a text leaf
LeafText == Node("TEXT", Some(<<CHOOSE p \in SamplePaints : p.visible = Some(TRUE)>>),
                 Some(<<>>), None)
LeafRect == Node("RECTANGLE", None,
                 Some(<<CHOOSE p \in SamplePaints : p.type = "SOLID" /\ p.visible = None>>),
                 None)
InnerFrame == Node("FRAME", Some(<<CHOOSE p \in SamplePaints : p.visible = Some(FALSE)>>),
                   None, Some(<<LeafText, LeafRect>>))

SampleTrees ==
  {Node(type, fills, strokes, children) :
     type \in {"TEXT", "FRAME"},
     fills \in PaintLists(MaxPaints),
     strokes \in PaintLists(1),
     children \in {None} \cup
        {Some(q) : q \in SeqsUpTo({LeafText, LeafRect, InnerFrame}, MaxChildren)}}

InitExtract ==
  /\ call \in {[fn |-> "extractColorsFromNode", node |-> n] : n \in SampleTrees}
  /\ ret = None
  /\ HostIdle

ApplyExtract ==
  /\ call.fn = "extractColorsFromNode" /\ ret = None
  /\ ret' = Some(extractColorsFromNode(call.node))
  /\ UNCHANGED <<call, hostVars>>

SpecExtract == InitExtract /\ [][ApplyExtract]_vars

\* what the claim says of one paint: it gives a sample iff it is solid and
\* not explicitly hidden
Yields(paint) == paint.type = "SOLID" /\ paint.visible # Some(FALSE)

\* the sample the claim expects of a yielding paint
ExpectedSample(paint, source) ==
  [hex |-> rgbToHex(paint.color.r, paint.color.g, paint.color.b),
   r |-> paint.color.r, g |-> paint.color.g, b |-> paint.color.b,
   a |-> IF paint.opacity = None THEN Frac(1, 1) ELSE paint.opacity[1],
   source |-> source, tokenName |-> <<>>]

OrEmpty(opt) == IF opt = None THEN <<>> ELSE opt[1]

\* the (paint, source) pairs of one node, in the claim's order
Slots(node) ==
  [i \in 1..Len(OrEmpty(node.fills)) |-> <<OrEmpty(node.fills)[i], "fill">>]
  \o [i \in 1..Len(OrEmpty(node.strokes)) |-> <<OrEmpty(node.strokes)[i], "stroke">>]
  \o (IF node.type = "TEXT"
        THEN [i \in 1..Len(OrEmpty(node.fills)) |-> <<OrEmpty(node.fills)[i], "text">>]
        ELSE <<>>)

RECURSIVE Flatten(_)
Flatten(qq) == IF Len(qq) = 0 THEN <<>> ELSE Head(qq) \o Flatten(Tail(qq))

RECURSIVE PreOrder(_)
\* the nodes of the tree, depth-first, parents before children
PreOrder(node) ==
  <<node>> \o Flatten([i \in 1..Len(OrEmpty(node.children)) |->
                         PreOrder(OrEmpty(node.children)[i])])

YieldingSlot(slot) == Yields(slot[1])

\* C4: extractColorsFromNode returns exactly one sample per (paint, source)
\* pair whose paint is solid and not explicitly hidden, and none for any
\* other; per node fills as 'fill', strokes as 'stroke', for a text node its
\* fills again as 'text', then the children's samples in child order
\* (depth-first, pre-order); an absent opacity gives a = 1.
C4_ExtractionOrder ==
  (ret # None /\ call.fn = "extractColorsFromNode") =>
    LET nodes == PreOrder(call.node)
        slots == SelectSeq(Flatten([i \in 1..Len(nodes) |-> Slots(nodes[i])]), YieldingSlot)
    IN ret[1] = [i \in 1..Len(slots) |-> ExpectedSample(slots[i][1], slots[i][2])]

\* a text node with a flagless solid fill (given twice, as fill and as text,
\* with a = 1), a skipped hidden or gradient paint, and a nested grandchild
C4_Witness ==
  /\ ret # None /\ call.fn = "extractColorsFromNode"
  /\ call.node.type = "TEXT"
  /\ call.node.fills # None /\ Len(call.node.fills[1]) = 2
  /\ call.node.fills[1][1].type = "SOLID" /\ call.node.fills[1][1].visible = None
  /\ ~Yields(call.node.fills[1][2])
  /\ call.node.strokes # None /\ Len(call.node.strokes[1]) = 1
  /\ Yields(call.node.strokes[1][1])
  /\ call.node.children = Some(<<InnerFrame, LeafRect>>)
  /\ Len(ret[1]) = 7
  /\ ret[1][1].source = "fill" /\ ret[1][1].a = Frac(1, 1)
  /\ ret[1][2].source = "stroke"
  /\ ret[1][3].source = "text" /\ ret[1][3].hex = ret[1][1].hex
  /\ ret[1][4].source = "fill" /\ ret[1][5].source = "text"
  /\ ret[1][6].source = "stroke" /\ ret[1][7].source = "stroke"

\* ----------------------------------------------- specification: JSON export
JsonPrefixes == {<<>>, <<"m", "y", "-", "u", "i", " ">>}

\* named colors as the naming engine returns them, exported under any pattern
InitJson ==
  /\ call \in {[fn |-> "buildJson", colors |-> assignTokenNames(b, p, x), pattern |-> e] :
                 b \in Batches(MaxBatch, {0}), p \in Patterns, x \in JsonPrefixes,
                 e \in Patterns}
  /\ ret = None
  /\ HostIdle

ApplyJson ==
  /\ call.fn = "buildJson" /\ ret = None
  /\ ret' = Some(buildJson(call.colors, call.pattern))
  /\ UNCHANGED <<call, hostVars>>

SpecJson == InitJson /\ [][ApplyJson]_vars

HasHyphen(name) == \E i \in 1..Len(name) : name[i] = "-"

\* the position of the last hyphen of a name that has one
LastHyphen(name) ==
  CHOOSE i \in 1..Len(name) :
    name[i] = "-" /\ \A j \in (i+1)..Len(name) : name[j] # "-"

GroupKey(name) == SubSeq(name, 1, LastHyphen(name) - 1)
ShadeKey(name) == SubSeq(name, LastHyphen(name) + 1, Len(name))

NamesDistinct(colors) ==
  \A i, j \in 1..Len(colors) : i # j => colors[i].tokenName # colors[j].tokenName

\* C8: buildJson returns {colors: M}; under tailwind M is two-level with
\* M[G][S] defined for every color, its token name being G, '-', S with no
\* hyphen in S; under any other pattern M is flat with M[tokenName] defined;
\* M has no other keys, and with pairwise distinct token names each color's
\* own hex is stored at its key and M has as many leaves as there are colors.
C8_JsonShape ==
  (ret # None /\ call.fn = "buildJson") =>
    LET M == ret[1].colors
        cs == call.colors
        idx == 1..Len(cs)
    IN IF call.pattern = "tailwind"
         THEN /\ \A i \in idx :
                   /\ HasHyphen(cs[i].tokenName)
                   /\ cs[i].tokenName
                        = GroupKey(cs[i].tokenName) \o <<"-">> \o ShadeKey(cs[i].tokenName)
                   /\ ~HasHyphen(ShadeKey(cs[i].tokenName))
                   /\ GroupKey(cs[i].tokenName) \in DOMAIN M
                   /\ ShadeKey(cs[i].tokenName) \in DOMAIN M[GroupKey(cs[i].tokenName)]
              /\ \A g \in DOMAIN M : \A s \in DOMAIN M[g] :
                   \E i \in idx : /\ GroupKey(cs[i].tokenName) = g
                                  /\ ShadeKey(cs[i].tokenName) = s
                                  /\ M[g][s] \in {cs[j].hex : j \in idx}
              /\ \A g \in DOMAIN M : DOMAIN M[g] # {}
              /\ NamesDistinct(cs) =>
                   /\ \A i \in idx :
                        M[GroupKey(cs[i].tokenName)][ShadeKey(cs[i].tokenName)] = cs[i].hex
                   /\ Cardinality({<<g, s>> \in (DOMAIN M) \X {ShadeKey(cs[i].tokenName) : i \in idx} :
                                     s \in DOMAIN M[g]}) = Len(cs)
         ELSE /\ DOMAIN M = {cs[i].tokenName : i \in idx}
              /\ \A k \in DOMAIN M : M[k] \in {cs[j].hex : j \in idx}
              /\ NamesDistinct(cs) =>
                   /\ \A i \in idx : M[cs[i].tokenName] = cs[i].hex
                   /\ Cardinality(DOMAIN M) = Len(cs)

\* a tailwind export of blue-500 and blue-500-1 (split at the last hyphen
\* into groups blue and blue-500)
C8_Witness ==
  /\ ret # None /\ call.fn = "buildJson" /\ call.pattern = "tailwind"
  /\ Len(call.colors) = 2
  /\ call.colors[1].tokenName = <<"b","l","u","e","-","5","0","0">>
  /\ call.colors[2].tokenName = <<"b","l","u","e","-","5","0","0","-","1">>
  /\ DOMAIN ret[1].colors = {<<"b","l","u","e">>, <<"b","l","u","e","-","5","0","0">>}
  /\ ret[1].colors[<<"b","l","u","e">>][<<"5","0","0">>] = call.colors[1].hex
  /\ ret[1].colors[<<"b","l","u","e","-","5","0","0">>][<<"1">>] = call.colors[2].hex

\* ------------------------------------------- specification: role classifier
HueSteps == 72

\* the color of hue 360*k/HueSteps degrees whose largest component is max and
\* smallest min (the usual hue-to-RGB construction, components rounded down)
WheelColor(k, max, min) ==
  LET h == (360 * k) \div HueSteps
      f == ((max - min) * (h % 60)) \div 60
      up == min + f
      down == max - f
      sector == h \div 60
  IN CASE sector = 0 -> Rgb(max, up, min)
       [] sector = 1 -> Rgb(down, max, min)
       [] sector = 2 -> Rgb(min, max, up)
       [] sector = 3 -> Rgb(min, down, max)
       [] sector = 4 -> Rgb(up, min, max)
       [] sector = 5 -> Rgb(max, min, down)

\* <<max, min>>: saturated, light saturated, saturation exactly 0.12, just
\* above it, below it (dark and light), and achromatic
Extremes == {<<240, 0>>, <<255, 15>>, <<112, 88>>, <<111, 87>>, <<136, 112>>,
             <<250, 238>>, <<128, 128>>}

InitRole ==
  /\ call \in {[fn |-> "detectColorRole", color |-> WheelColor(k, e[1], e[2])] :
                 k \in 0..(HueSteps - 1), e \in Extremes}
  /\ ret = None
  /\ HostIdle

ApplyRole ==
  /\ call.fn = "detectColorRole" /\ ret = None
  /\ ret' = Some(detectColorRole(call.color.r, call.color.g, call.color.b))
  /\ UNCHANGED <<call, hostVars>>

SpecRole == InitRole /\ [][ApplyRole]_vars

\* the partition of [0, 360) the claim gives
RoleRanges ==
  <<[lo |-> 0, hi |-> 20, role |-> "red"],
    [lo |-> 20, hi |-> 45, role |-> "orange"],
    [lo |-> 45, hi |-> 70, role |-> "yellow"],
    [lo |-> 70, hi |-> 165, role |-> "green"],
    [lo |-> 165, hi |-> 200, role |-> "cyan"],
    [lo |-> 200, hi |-> 260, role |-> "blue"],
    [lo |-> 260, hi |-> 300, role |-> "purple"],
    [lo |-> 300, hi |-> 340, role |-> "pink"],
    [lo |-> 340, hi |-> 360, role |-> "red"]>>

InRange(h, rg) == rg.lo * h.d <= h.n /\ h.n < rg.hi * h.d

\* C9: detectColorRole is total; saturation < 0.12 gives gray whatever the
\* hue; otherwise the hue lies in [0, 360) and in exactly one of the nine
\* half-open ranges, and the role returned is the one of that range.
C9_RolePartition ==
  (ret # None /\ call.fn = "detectColorRole") =>
    LET hsl == rgbToHsl(call.color.r, call.color.g, call.color.b)
        hit == {k \in 1..Len(RoleRanges) : InRange(hsl.h, RoleRanges[k])}
    IN /\ ret[1] \in Roles
       /\ 0 <= hsl.h.n /\ hsl.h.n < 360 * hsl.h.d
       /\ Cardinality(hit) = 1
       /\ IF 100 * hsl.s.n < 12 * hsl.s.d
            THEN ret[1] = "gray"
            ELSE \A k \in hit : ret[1] = RoleRanges[k].role

\* a saturated color of hue exactly 340 is red, one of hue 335 pink, and a
\* color of saturation below 0.12 is gray
C9_Witness ==
  /\ ret # None /\ call.fn = "detectColorRole"
  /\ LET hsl == rgbToHsl(call.color.r, call.color.g, call.color.b)
     IN /\ hsl.h.n = 340 * hsl.h.d
        /\ hsl.s.n = hsl.s.d
        /\ ret[1] = "red"

\* ------------------------------------------- specification: shade quantizer
LightnessSteps == 40

Lightnesses == {Frac(n, LightnessSteps) : n \in 0..LightnessSteps}

InitShade ==
  /\ call \in {[fn |-> f, l |-> l1, l2 |-> l2] :
                 f \in {"lightnessToShade", "lightnessToAntLevel"},
                 l1 \in Lightnesses, l2 \in Lightnesses}
  /\ ret = None
  /\ HostIdle

ApplyShade ==
  /\ call.fn = "lightnessToShade" /\ ret = None
  /\ ret' = Some(<<lightnessToShade(call.l), lightnessToShade(call.l2)>>)
  /\ UNCHANGED <<call, hostVars>>

ApplyAntLevel ==
  /\ call.fn = "lightnessToAntLevel" /\ ret = None
  /\ ret' = Some(<<lightnessToAntLevel(call.l), lightnessToAntLevel(call.l2)>>)
  /\ UNCHANGED <<call, hostVars>>

NextShade == ApplyShade \/ ApplyAntLevel

SpecShade == InitShade /\ [][NextShade]_vars

\* the ordered shade set of the claim
ShadeScale == <<50, 100, 200, 300, 400, 500, 600, 700, 800, 900, 950>>

\* k = round(x * (1 - l)): k - 1/2 <= x * (1 - l) < k + 1/2
IsRoundOf(k, x, l) ==
  /\ (2 * k - 1) * l.d <= 2 * x * (l.d - l.n)
  /\ 2 * x * (l.d - l.n) < (2 * k + 1) * l.d

\* C10: for l in [0, 1] lightnessToShade returns the element of index
\* round((1-l)*10) of {50, ..., 950} (l = 1 gives 50, l = 0 gives 950,
\* l = 0.5 gives 500), lightnessToAntLevel returns round((1-l)*9)+1, in
\* 1..10 (l = 1 gives 1, l = 0 gives 10), and neither decreases as the
\* lightness decreases.
C10_Quantizers ==
  ret # None =>
    /\ call.fn = "lightnessToShade" =>
         /\ \E k \in 0..10 : IsRoundOf(k, 10, call.l) /\ ret[1][1] = ShadeScale[k + 1]
         /\ call.l.n = call.l.d => ret[1][1] = 50
         /\ call.l.n = 0 => ret[1][1] = 950
         /\ 2 * call.l.n = call.l.d => ret[1][1] = 500
    /\ call.fn = "lightnessToAntLevel" =>
         /\ \E k \in 0..9 : IsRoundOf(k, 9, call.l) /\ ret[1][1] = k + 1
         /\ ret[1][1] \in 1..10
         /\ call.l.n = call.l.d => ret[1][1] = 1
         /\ call.l.n = 0 => ret[1][1] = 10
    /\ call.fn \in {"lightnessToShade", "lightnessToAntLevel"} =>
         (FracGe(call.l, call.l2) => ret[1][1] <= ret[1][2])

\* lightness 0.5 against black: 500 then 950
C10_Witness ==
  /\ ret # None /\ call.fn = "lightnessToShade"
  /\ 2 * call.l.n = call.l.d /\ call.l2.n = 0
  /\ ret[1] = <<500, 950>>

\* ------------------------------------------------------ export to variables
patternLabels(pattern) ==
  CASE pattern = "material" -> "Material Design 3 Colors"
    [] pattern = "tailwind" -> "Tailwind CSS Colors"
    [] pattern = "antd" -> "Ant Design Colors"
    [] pattern = "wcag" -> "WCAG Accessible Colors"
    [] pattern = "custom" -> "Custom Design Tokens"

\* the value exportToFigmaVariables passes to setValueForMode
Rgba(color) == [r |-> color.r, g |-> color.g, b |-> color.b, a |-> color.a]

\* what a store operation may throw: an error with a message, or a value
\* without one
Faults == {[message |-> Some("variable store failure")], [message |-> None]}

\* figma.ui.postMessage({ type: "export-done", ... })
ExportDoneReply(msg) ==
  [type |-> "export-done", target |-> "variables", count |-> Len(msg.colors)]

\* figma.ui.postMessage({ type: "export-error", message: err?.message ?? "Unknown error" })
ExportErrorReply(err) ==
  [type |-> "export-error",
   message |-> IF err.message = None THEN "Unknown error" ELSE err.message[1]]

\* a catch block that swallows the fault
CatchReplies_Silent(err) == <<>>

\* the catch block of the export-variables case: what it posts
CatchReplies(err) == <<ExportErrorReply(err)>>

\* the handler of a request that has returned
DoneTask ==
  [pc |-> "done", awaited |-> None, collection |-> None, k |-> 0, failed |-> None]

\* the handler suspended at `await getLocalVariableCollectionsAsync()`
StartedTask == [DoneTask EXCEPT !.pc = "awaitCollections"]

Event(req, idx, op, id) == [req |-> req, idx |-> idx, op |-> op, id |-> id]

MinOf(S) == CHOOSE x \in S : \A y \in S : x <= y

\* the export throws err: the catch block runs and the handler returns
Thrown(task, err, store, events) ==
  [task |-> [task EXCEPT !.pc = "done", !.awaited = None, !.failed = Some(err)],
   store |-> store, replies |-> CatchReplies(err), events |-> events]

\* exportToFigmaVariables returns: export-done is posted
Returned(task, msg, store, events) ==
  [task |-> [task EXCEPT !.pc = "done", !.awaited = None],
   store |-> store, replies |-> <<ExportDoneReply(msg)>>, events |-> events]

\* the loop `for (const color of colors)` reaches color k, or ends
LoopAt(task, msg, k, store, events) ==
  IF k > Len(msg.colors) THEN Returned(task, msg, store, events)
  ELSE [task |-> [task EXCEPT !.pc = "awaitVariables", !.awaited = None, !.k = k],
        store |-> store, replies |-> <<>>, events |-> events]

\* lines 273-279 and the loop's entry, run when the collections promise
\* settles with res; colls is the store's collections then
AfterCollections(i, task, msg, res, colls) ==
  IF ~res.ok THEN {Thrown(task, res.err, colls, {})}
  ELSE
    LET collectionName == patternLabels(msg.pattern)
        found == {c \in 1..Len(res.value) : res.value[c].name = collectionName}
        created == [id |-> Len(colls) + 1, name |-> collectionName,
                    modeId |-> Len(colls) + 1]
    IN IF found # {}
         THEN {LoopAt([task EXCEPT !.collection = Some(res.value[MinOf(found)])],
                      msg, 1, colls, {})}
         ELSE {Thrown(task, e, colls, {}) : e \in Faults}
              \cup {LoopAt([task EXCEPT !.collection = Some(created)], msg, 1,
                           Append(colls, created),
                           {Event(i, 0, "createVariableCollection", created.id)})}

\* variable.setValueForMode(modeId, value) on the variable with this id
SetValue(vs, id, value) == [vs EXCEPT ![id].value = Some(value)]

\* lines 283-294 for color k, run when the variables promise settles with
\* res; vs is the store's variables then
AfterVariables(i, task, msg, res, vs) ==
  IF ~res.ok THEN {Thrown(task, res.err, vs, {})}
  ELSE
    LET color == msg.colors[task.k]
        collection == task.collection[1]
        found == {v \in 1..Len(res.value) :
                    /\ res.value[v].name = color.tokenName
                    /\ res.value[v].variableCollectionId = collection.id}
        created == [id |-> Len(vs) + 1, name |-> color.tokenName,
                    variableCollectionId |-> collection.id, value |-> None]
        setEvent(id) == Event(i, task.k, "setValueForMode", id)
        createEvent == Event(i, task.k, "createVariable", created.id)
    IN IF found # {}
         THEN LET id == res.value[MinOf(found)].id
              IN {Thrown(task, e, vs, {}) : e \in Faults}
                 \cup {LoopAt(task, msg, task.k + 1, SetValue(vs, id, Rgba(color)),
                              {setEvent(id)})}
         ELSE {Thrown(task, e, vs, {}) : e \in Faults}
              \cup {Thrown(task, e, Append(vs, created), {createEvent}) : e \in Faults}
              \cup {LoopAt(task, msg, task.k + 1,
                           SetValue(Append(vs, created), created.id, Rgba(color)),
                           {createEvent, setEvent(created.id)})}

\* --------------------------------------------------------- message handler
MaxRequests == 2

Tag(i, msgs) == [j \in 1..Len(msgs) |-> [req |-> i, msg |-> msgs[j]]]

\* msg.x ?? dflt
OrElse(opt, dflt) == IF opt = None THEN dflt ELSE opt[1]

\* case "extract-colors" without the early return after no-selection
ExtractReplies_NoReturn(sel, msg) ==
  (IF Len(sel) = 0 THEN <<[type |-> "no-selection"]>> ELSE <<>>)
  \o <<[type |-> "colors-extracted",
        colors |-> assignTokenNames(deduplicateColors(extractColorsFromNodes(sel)),
                                    OrElse(msg.pattern, "tailwind"),
                                    OrElse(msg.customPrefix, S_color)),
        source |-> "extract"]>>

\* the extract-colors case without its deduplication step
ExtractReplies_NoDedup(sel, msg) ==
  IF Len(sel) = 0 THEN <<[type |-> "no-selection"]>>
  ELSE <<[type |-> "colors-extracted",
          colors |-> assignTokenNames(extractColorsFromNodes(sel),
                                      OrElse(msg.pattern, "tailwind"),
                                      OrElse(msg.customPrefix, S_color)),
          source |-> "extract"]>>

\* case "extract-colors": what the handler posts
ExtractReplies(sel, msg) ==
  IF Len(sel) = 0 THEN <<[type |-> "no-selection"]>>
  ELSE <<[type |-> "colors-extracted",
          colors |-> assignTokenNames(deduplicateColors(extractColorsFromNodes(sel)),
                                      OrElse(msg.pattern, "tailwind"),
                                      OrElse(msg.customPrefix, S_color)),
          source |-> "extract"]>>

\* case "apply-naming"
RenameReplies(msg) ==
  <<[type |-> "colors-extracted",
     colors |-> assignTokenNames(msg.colors, msg.pattern, OrElse(msg.customPrefix, S_color)),
     source |-> "rename"]>>

\* case "export-json"
JsonReplies(msg) == <<[type |-> "json-ready", json |-> buildJson(msg.colors, msg.pattern)]>>

\* the requests of the panel
ExtractMsgs ==
  {[type |-> "extract-colors", pattern |-> p, customPrefix |-> None] :
     p \in {None}}
ApplyNamingMsgs ==
  {[type |-> "apply-naming",
    colors |-> <<Sample(Palette[1], Frac(1, 1), "fill"), Sample(Palette[2], Frac(1, 2), "stroke")>>,
    pattern |-> "custom", customPrefix |-> x] : x \in {Some(<<"d", "s">>)}}
NamedBlues ==
  assignTokenNames(<<Sample(Palette[1], Frac(1, 1), "fill"),
                     Sample(Palette[2], Frac(1, 2), "stroke")>>, "tailwind", S_color)
ExportJsonMsgs == {[type |-> "export-json", colors |-> NamedBlues, pattern |-> "tailwind"]}
ExportVariablesMsgs ==
  {[type |-> "export-variables", colors |-> SubSeq(NamedBlues, 1, n), pattern |-> "tailwind"] :
     n \in {0, 2}}
CloseMsg == [type |-> "close"]

CanReceive == ~closed /\ Len(requests) < MaxRequests

\* a request whose handler runs to its end without suspending
ReceiveSync(m, replies) ==
  /\ CanReceive
  /\ requests' = Append(requests, m)
  /\ tasks' = Append(tasks, DoneTask)
  /\ outbox' = outbox \o Tag(Len(requests) + 1, replies)
  /\ UNCHANGED <<pureVars, selection, collections, variables, history>>

ReceiveExtract ==
  \E m \in ExtractMsgs : ReceiveSync(m, ExtractReplies(selection, m)) /\ UNCHANGED closed

ReceiveApplyNaming ==
  \E m \in ApplyNamingMsgs : ReceiveSync(m, RenameReplies(m)) /\ UNCHANGED closed

ReceiveExportJson ==
  \E m \in ExportJsonMsgs : ReceiveSync(m, JsonReplies(m)) /\ UNCHANGED closed

\* case "close": figma.closePlugin() ends the session
ReceiveClose == ReceiveSync(CloseMsg, <<>>) /\ closed' = TRUE

\* case "export-variables", up to the first await
ReceiveExportVariables ==
  \E m \in ExportVariablesMsgs :
    /\ CanReceive
    /\ requests' = Append(requests, m)
    /\ tasks' = Append(tasks, StartedTask)
    /\ UNCHANGED <<pureVars, selection, collections, variables, outbox, history, closed>>

\* how a promise of the store may settle: with the value, or with a fault
Settlements(value) ==
  {[ok |-> TRUE, value |-> value]} \cup {[ok |-> FALSE, err |-> e] : e \in Faults}

\* the host settles getLocalVariableCollectionsAsync() of handler i
ResolveCollections(i) ==
  /\ ~closed /\ tasks[i].pc = "awaitCollections"
  /\ \E res \in Settlements(collections) :
       tasks' = [tasks EXCEPT ![i].pc = "haveCollections", ![i].awaited = Some(res)]
  /\ UNCHANGED <<pureVars, selection, collections, variables, requests, outbox, history, closed>>

\* handler i resumes after its first await
ContinueCollections(i) ==
  /\ ~closed /\ tasks[i].pc = "haveCollections"
  /\ \E o \in AfterCollections(i, tasks[i], requests[i], tasks[i].awaited[1], collections) :
       /\ tasks' = [tasks EXCEPT ![i] = o.task]
       /\ collections' = o.store
       /\ outbox' = outbox \o Tag(i, o.replies)
       /\ history' = history \cup o.events
  /\ UNCHANGED <<pureVars, selection, variables, requests, closed>>

\* the host settles getLocalVariablesAsync("COLOR") of handler i
ResolveVariables(i) ==
  /\ ~closed /\ tasks[i].pc = "awaitVariables"
  /\ \E res \in Settlements(variables) :
       tasks' = [tasks EXCEPT ![i].pc = "haveVariables", ![i].awaited = Some(res)]
  /\ UNCHANGED <<pureVars, selection, collections, variables, requests, outbox, history, closed>>

\* handler i resumes in the loop, for color tasks[i].k
ContinueVariables(i) ==
  /\ ~closed /\ tasks[i].pc = "haveVariables"
  /\ \E o \in AfterVariables(i, tasks[i], requests[i], tasks[i].awaited[1], variables) :
       /\ tasks' = [tasks EXCEPT ![i] = o.task]
       /\ variables' = o.store
       /\ outbox' = outbox \o Tag(i, o.replies)
       /\ history' = history \cup o.events
  /\ UNCHANGED <<pureVars, selection, collections, requests, closed>>

TaskStep(i) ==
  \/ ResolveCollections(i)
  \/ ContinueCollections(i)
  \/ ResolveVariables(i)
  \/ ContinueVariables(i)

StoredTailwind ==
  [collections |-> <<[id |-> 1, name |-> patternLabels("tailwind"), modeId |-> 1]>>,
   variables |-> <<[id |-> 1, name |-> NamedBlues[1].tokenName, variableCollectionId |-> 1,
                    value |-> Some(Rgba(Sample(Palette[5], Frac(1, 1), "fill")))]>>]

\* what is selected and what the store holds when the plugin starts: nothing,
\* or two nodes and a collection left by an earlier session
Starts ==
  {[selection |-> <<>>, collections |-> <<>>, variables |-> <<>>],
   [selection |-> <<InnerFrame, LeafRect>>,
    collections |-> StoredTailwind.collections, variables |-> StoredTailwind.variables]}

Init ==
  /\ call = [fn |-> "none"]
  /\ ret = None
  /\ \E s \in Starts :
       /\ selection = s.selection
       /\ collections = s.collections
       /\ variables = s.variables
  /\ requests = <<>>
  /\ tasks = <<>>
  /\ outbox = <<>>
  /\ history = {}
  /\ closed = FALSE

Next ==
  \/ ReceiveExtract
  \/ ReceiveApplyNaming
  \/ ReceiveExportJson
  \/ ReceiveClose
  \/ ReceiveExportVariables
  \/ \E i \in 1..Len(tasks) : TaskStep(i)

Spec == Init /\ [][Next]_vars

\* the host settles every pending promise and a resumed handler runs, as
\* long as the session is open
FairSpec == Spec /\ \A i \in 1..MaxRequests : WF_vars(i <= Len(tasks) /\ TaskStep(i))

\* --------------------------------------------------- claims on the handler
\* the messages posted in answer to request i, in order
RepliesTo(i) ==
  LET mine == SelectSeq(outbox, LAMBDA e : e.req = i)
  IN [j \in 1..Len(mine) |-> mine[j].msg]

IsExport(i) == requests[i].type = "export-variables"

\* the export of request i has thrown and its handler has returned
Failed(i) == IsExport(i) /\ tasks[i].pc = "done" /\ tasks[i].failed # None

\* the store operations request i has done
EventsOf(i) == {e \in history : e.req = i}

\* the colors of request i whose value has been set
Applied(i) == {e.idx : e \in {f \in EventsOf(i) : f.op = "setValueForMode"}}

\* C5: when an export-variables request fails at the store operation for
\* color k (k = 0: while locating or creating the collection), the values
\* set for the colors before k stay in the store, no variable is created or
\* set for the colors after k, and the handler posts exactly one export-error
\* and no export-done, and returns (the fault does not escape it).
C5_FailureKeepsPrefix ==
  \A i \in 1..Len(tasks) :
    Failed(i) =>
      LET cs == requests[i].colors
          k == tasks[i].k
      IN /\ Len(RepliesTo(i)) = 1
         /\ RepliesTo(i)[1].type = "export-error"
         /\ \A j \in 1..(k - 1) :
              \E e \in EventsOf(i) :
                /\ e.idx = j /\ e.op = "setValueForMode"
                /\ e.id \in 1..Len(variables)
                /\ variables[e.id].name = cs[j].tokenName
                /\ variables[e.id].variableCollectionId = tasks[i].collection[1].id
                /\ variables[e.id].value # None
                /\ variables[e.id].value[1] \in
                     {Rgba(requests[f.req].colors[f.idx]) :
                        f \in {g \in history : g.op = "setValueForMode" /\ g.id = e.id}}
                /\ (\A g \in history : (g.op = "setValueForMode" /\ g.id = e.id) => g = e)
                     => variables[e.id].value[1] = Rgba(cs[j])
         /\ \A e \in EventsOf(i) : e.idx <= k
         /\ \A e \in EventsOf(i) : e.idx = k /\ k > 0 => e.op = "createVariable"

\* an export of two colors has failed at its second color, after the first
\* was set, and its request got the one export-error
C5_Witness ==
  \E i \in 1..Len(tasks) :
    /\ Failed(i)
    /\ Len(requests[i].colors) = 2 /\ tasks[i].k = 2
    /\ Applied(i) = {1}
    /\ Len(RepliesTo(i)) = 1

\* C6: the reply to a failed export documents the partial effect: it tells
\* how many colors were applied before the failure. So two failed exports of
\* the same batch that applied different numbers of colors, one of them at
\* least one, get different replies.
C6_ReplyTellsProgress ==
  \A i, j \in 1..Len(tasks) :
    (/\ Failed(i) /\ Failed(j)
     /\ requests[i] = requests[j]
     /\ Applied(i) # {}
     /\ Cardinality(Applied(i)) # Cardinality(Applied(j)))
    => RepliesTo(i) # RepliesTo(j)

\* the reply the interface table gives for each request, once and only once
ReplyKindsOK ==
  \A i \in 1..Len(requests) :
    LET m == requests[i]
        r == RepliesTo(i)
    IN CASE m.type = "extract-colors" ->
              IF Len(selection) = 0
                THEN r = <<[type |-> "no-selection"]>>
                ELSE Len(r) = 1 /\ r[1].type = "colors-extracted" /\ r[1].source = "extract"
         [] m.type = "apply-naming" ->
              Len(r) = 1 /\ r[1].type = "colors-extracted" /\ r[1].source = "rename"
         [] m.type = "export-json" -> Len(r) = 1 /\ r[1].type = "json-ready"
         [] m.type = "export-variables" ->
              IF tasks[i].pc = "done"
                THEN /\ Len(r) = 1
                     /\ \/ r[1].type = "export-done" /\ r[1].count = Len(m.colors)
                        \/ r[1].type = "export-error"
                ELSE r = <<>>
         [] m.type = "close" -> r = <<>>

\* request i has had its answer (close has none)
Answered(i) ==
  /\ i <= Len(requests)
  /\ requests[i].type # "close" => Len(RepliesTo(i)) = 1
  /\ IsExport(i) => tasks[i].pc = "done"

\* C7 as stated: every request is answered by exactly one reply of its kind;
\* export-variables eventually by export-done or export-error.
C7_EveryRequestAnswered ==
  /\ []ReplyKindsOK
  /\ \A i \in 1..MaxRequests : (i <= Len(requests)) ~> Answered(i)

\* C7, amended: every request is answered by exactly one reply of its kind,
\* export-variables eventually, unless a close request is handled while the
\* export still awaits the store: then the session has ended and the export
\* gets no reply.
C7_AnsweredUnlessClosed ==
  /\ []ReplyKindsOK
  /\ \A i \in 1..MaxRequests : (i <= Len(requests)) ~> (Answered(i) \/ closed)

\* an extract-colors request with nothing selected got no-selection, and an
\* export of two colors got export-done with count 2
C7_Witness ==
  /\ Len(requests) = 2
  /\ requests[1].type = "extract-colors" /\ Len(selection) = 0
  /\ RepliesTo(1) = <<[type |-> "no-selection"]>>
  /\ IsExport(2) /\ Len(requests[2].colors) = 2
  /\ Len(RepliesTo(2)) = 1
  /\ RepliesTo(2)[1].type = "export-done" /\ RepliesTo(2)[1].count = 2

\* C11: create-or-find. After any sequence of export-variables requests,
\* whose handlers may interleave at their awaits, the store holds at most one
\* collection with a given name and at most one variable with a given name
\* inside a collection.
C11_CreateOrFind ==
  /\ \A a, b \in 1..Len(collections) :
       collections[a].name = collections[b].name => a = b
  /\ \A a, b \in 1..Len(variables) :
       (/\ variables[a].name = variables[b].name
        /\ variables[a].variableCollectionId = variables[b].variableCollectionId)
       => a = b

\* ------------------------------------------- the extract-colors case alone
\* what may be selected: one sample tree, alone or after a rectangle
Selections == {<<n>> : n \in SampleTrees} \cup {<<LeafRect, n>> : n \in SampleTrees}

InitExtractReply ==
  /\ call \in {[fn |-> "extract-colors", selection |-> s, msg |-> m] :
                 s \in Selections, m \in ExtractMsgs}
  /\ ret = None
  /\ HostIdle

\* the handler's extract-colors case: the raw list it collects (lines
\* 310-313) and what it posts
ApplyExtractReply ==
  /\ call.fn = "extract-colors" /\ ret = None
  /\ ret' = Some([raw |-> extractColorsFromNodes(call.selection),
                  replies |-> ExtractReplies(call.selection, call.msg)])
  /\ UNCHANGED <<call, hostVars>>

SpecExtractReply == InitExtractReply /\ [][ApplyExtractReply]_vars

\* C12: in every colors-extracted reply to an extract-colors request no
\* color has source "text": each "text" sample of the raw list comes after a
\* "fill" sample with the same hex and the same channels, so deduplication
\* drops it.
C12_NoTextSource ==
  (call.fn = "extract-colors" /\ ret # None) =>
    LET raw == ret[1].raw
        replies == ret[1].replies
    IN /\ \A j \in 1..Len(raw) :
            raw[j].source = "text" =>
              \E i \in 1..(j - 1) :
                /\ raw[i].source = "fill"
                /\ raw[i].hex = raw[j].hex
                /\ Rgba(raw[i]) = Rgba(raw[j])
       /\ \A q \in 1..Len(replies) :
            replies[q].type = "colors-extracted" =>
              \A j \in 1..Len(replies[q].colors) : replies[q].colors[j].source # "text"

\* a text node with two visible solid fills was selected: the raw list has
\* "text" samples, and the reply carries their colors as "fill"
C12_Witness ==
  /\ call.fn = "extract-colors" /\ ret # None
  /\ Len(call.selection) = 1 /\ call.selection[1].type = "TEXT"
  /\ Cardinality({j \in 1..Len(ret[1].raw) : ret[1].raw[j].source = "text"}) = 2
  /\ Len(ret[1].replies) = 1
  /\ ret[1].replies[1].type = "colors-extracted"
  /\ Cardinality({j \in 1..Len(ret[1].replies[1].colors) :
                    ret[1].replies[1].colors[j].source = "fill"}) = 2

=============================================================================
